---- MODULE Spec2Model ----
(***************************************************************************)
(* A model of pytorch_lightning/plugins/ddp_plugin.py: the DDPPlugin       *)
(* class, the process environment (os.environ) it writes and the           *)
(* torch.distributed process-group state it reads and initializes.        *)
(*                                                                         *)
(* One action per method of DDPPlugin.  Each state carries, in `last`,     *)
(* the most recent call with its arguments and its result, and in          *)
(* `pg_calls` the log of the invocations of                                *)
(* torch_distrib.init_process_group.                                       *)
(***************************************************************************)
EXTENDS Integers, Sequences, FiniteSets, TLC

(***************************************************************************)
(* Bounds of the model.                                                    *)
(***************************************************************************)
\* the number of DDPPlugin instances alive in the process
NumPlugins == 2
\* world_size arguments range over 1..MaxWorld, global_rank over 0..MaxWorld-1
MaxWorld == 2
\* on_before_forward receives at most MaxArgs positional arguments
MaxArgs == 2
\* the log of init_process_group invocations is cut at this length
MaxInitCalls == 3

PluginIds == 1..NumPlugins

(***************************************************************************)
(* Python values.  A value that goes through str() is tagged with its      *)
(* type; str() is computed as Python computes it.                          *)
(***************************************************************************)
PyStr(s) == [t |-> "str", v |-> s]
PyInt(n) == [t |-> "int", v |-> n]
PyNone == [t |-> "NoneType", v |-> "None"]
PyBool(b) == [t |-> "bool", v |-> b]

Digit(d) ==
    CASE d = 0 -> "0" [] d = 1 -> "1" [] d = 2 -> "2" [] d = 3 -> "3"
      [] d = 4 -> "4" [] d = 5 -> "5" [] d = 6 -> "6" [] d = 7 -> "7"
      [] d = 8 -> "8" [] d = 9 -> "9"

RECURSIVE NatToStr(_)
NatToStr(n) ==
    IF n < 10 THEN Digit(n) ELSE NatToStr(n \div 10) \o Digit(n % 10)

\* str(x) of lines 78-80
str(x) ==
    CASE x.t = "str" -> x.v
      [] x.t = "int" -> IF x.v < 0 THEN "-" \o NatToStr(0 - x.v) ELSE NatToStr(x.v)
      [] x.t = "NoneType" -> "None"
      [] x.t = "bool" -> IF x.v THEN "True" ELSE "False"

\* the truth value of x, as the conditional expression of line 81 takes it
Truthy(x) ==
    CASE x.t = "bool" -> x.v
      [] x.t = "NoneType" -> FALSE
      [] x.t = "int" -> x.v # 0
      [] x.t = "str" -> x.v # ""

(***************************************************************************)
(* Python dicts are functions from their keys.                             *)
(***************************************************************************)
EmptyDict == [k \in {} |-> TRUE]

\* d.get(k, default)
DictGetDefaultOnly(d, k, default) == default
DictGet(d, k, default) == IF k \in DOMAIN d THEN d[k] ELSE default

\* d[k] = v
DictSet(d, k, v) == [x \in (DOMAIN d) \cup {k} |-> IF x = k THEN v ELSE d[x]]

(***************************************************************************)
(* Inputs.                                                                 *)
(***************************************************************************)
\* keyword arguments given to DDPPlugin(**kwargs)
CtorKwargs ==
    { EmptyDict,
      [find_unused_parameters |-> FALSE],
      [find_unused_parameters |-> TRUE, bucket_cap_mb |-> 25],
      [bucket_cap_mb |-> 25],
      [device_ids |-> <<1>>] }

Models == {"model_a", "model_b"}
DeviceIds == {<<0>>, <<0, 1>>}

\* cluster environments: what master_address(), master_port() and world_size() return
ClusterEnvs ==
    { [master_address |-> PyStr("127.0.0.1"), master_port |-> PyInt(12910),
       world_size |-> PyInt(MaxWorld)],
      [master_address |-> PyStr("node1"), master_port |-> PyStr("29500"),
       world_size |-> PyNone],
      [master_address |-> PyStr("node1"), master_port |-> PyInt(12910),
       world_size |-> PyInt(1)] }

\* trainer.on_gpu
OnGpuValues == {PyBool(TRUE), PyBool(FALSE), PyNone}
Trainers == [on_gpu : OnGpuValues]

Ranks == 0..(MaxWorld - 1)
WorldSizes == 1..MaxWorld

BatchValues == {"batch", "batch_idx"}
RECURSIVE Tuples(_)
Tuples(n) ==
    IF n = 0 THEN {<<>>}
    ELSE Tuples(n - 1) \cup {Append(s, x) : s \in {t \in Tuples(n - 1) : Len(t) = n - 1}, x \in BatchValues}
ArgTuples == Tuples(MaxArgs)

\* optimizers, each with the dict its state_dict() returns
Optimizers ==
    { [name |-> "sgd", sd |-> [state |-> <<>>, param_groups |-> <<"lr=1">>]],
      [name |-> "adam", sd |-> [state |-> <<"exp_avg">>, param_groups |-> <<"lr=3">>]] }

EnvKeys == {"MASTER_ADDR", "MASTER_PORT", "WORLD_SIZE"}
Unset == "<unset>"
\* os.environ as the process may find it at start
InitialEnvirons ==
    { [k \in EnvKeys |-> Unset],
      [MASTER_ADDR |-> "10.0.0.9", MASTER_PORT |-> "1234", WORLD_SIZE |-> "8"] }

(***************************************************************************)
(* State.                                                                  *)
(***************************************************************************)
VARIABLES
    ddp_kwargs,   \* self._ddp_kwargs of each plugin
    ctor_kwargs,  \* the kwargs each plugin's __init__ received (history)
    environ,      \* os.environ, restricted to EnvKeys
    initialized,  \* torch_distrib.is_initialized()
    pg_calls,     \* the invocations of torch_distrib.init_process_group, in order
    last          \* the most recent call of a plugin method, with its result

vars == <<ddp_kwargs, ctor_kwargs, environ, initialized, pg_calls, last>>

\* DDPPlugin.__init__: self._ddp_kwargs = kwargs
Init ==
    /\ ctor_kwargs \in [PluginIds -> CtorKwargs]
    /\ ddp_kwargs = ctor_kwargs
    /\ environ \in InitialEnvirons
    /\ initialized \in BOOLEAN
    /\ pg_calls = <<>>
    /\ last = [op |-> "none"]

(***************************************************************************)
(* configure_ddp                                                           *)
(***************************************************************************)
\* the default of find_unused_parameters
FindUnusedDefaultFalse == FALSE
FindUnusedDefault == TRUE

\* lines 60-62: self._ddp_kwargs["find_unused_parameters"] = self._ddp_kwargs.get(...)
DefaultedKwargs(kw) ==
    DictSet(kw, "find_unused_parameters",
            DictGet(kw, "find_unused_parameters", FindUnusedDefault))

\* lines 63-67: the call LightningDistributedDataParallel(model, device_ids=device_ids, **kw).
\* A keyword given both explicitly and through ** makes the call raise TypeError
\* before the callee runs.
ConstructWrapper(model, device_ids, kw) ==
    IF "device_ids" \in DOMAIN kw
    THEN [raised |-> "TypeError", cls |-> "none", module |-> "none",
          kwargs |-> EmptyDict]
    ELSE [raised |-> "", cls |-> "LightningDistributedDataParallel",
          module |-> model, kwargs |-> DictSet(kw, "device_ids", device_ids)]

configure_ddp(p, model, device_ids) ==
    LET kw == DefaultedKwargs(ddp_kwargs[p])
    IN  /\ ddp_kwargs' = [ddp_kwargs EXCEPT ![p] = kw]
        /\ last' = [op |-> "configure_ddp", plugin |-> p, model |-> model,
                    device_ids |-> device_ids,
                    ret |-> ConstructWrapper(model, device_ids, kw)]
        /\ UNCHANGED <<ctor_kwargs, environ, initialized, pg_calls>>

(***************************************************************************)
(* init_ddp_connection                                                     *)
(***************************************************************************)
\* lines 78-80: the three assignments to os.environ
SetEnviron(env, ce) ==
    [env EXCEPT !["MASTER_ADDR"] = str(ce.master_address),
                !["MASTER_PORT"] = str(ce.master_port),
                !["WORLD_SIZE"] = str(ce.world_size)]

\* line 81: torch_backend = "nccl" if trainer.on_gpu else "gloo"
TorchBackendSwapped(trainer) == IF Truthy(trainer.on_gpu) THEN "gloo" ELSE "nccl"
TorchBackend(trainer) == IF Truthy(trainer.on_gpu) THEN "nccl" ELSE "gloo"

\* os.environ when the call returns: lines 78-80 stand before the test of line 83
\* and run whether or not the process group is initialized
EnvironOnlyWhenUninitialized(env, ce, is_initialized) ==
    IF is_initialized THEN env ELSE SetEnviron(env, ce)
EnvironAfterCall(env, ce, is_initialized) == SetEnviron(env, ce)

\* line 83: if not torch_distrib.is_initialized()
ShouldInitAlways(is_initialized) == TRUE
ShouldInit(is_initialized) == ~is_initialized

\* os.environ as init_process_group finds it: the statements of lines 78-80
\* come before the call of lines 87-89
EnvironBeforeWrites(before, after) == before
EnvironAtInit(before, after) == after

\* lines 87-89: torch_distrib.init_process_group(torch_backend, rank=global_rank,
\* world_size=world_size), entered in the log with os.environ as it is then and
\* with the arguments of the enclosing call
InitProcessGroupCall(backend, global_rank, world_size, env, trainer, ce) ==
    [backend |-> backend, rank |-> global_rank, world_size |-> world_size,
     environ |-> env,
     call |-> [on_gpu |-> trainer.on_gpu, cluster_environment |-> ce,
               global_rank |-> global_rank, world_size |-> world_size]]

init_ddp_connection(p, trainer, ce, global_rank, world_size) ==
    LET env == EnvironAfterCall(environ, ce, initialized)
        torch_backend == TorchBackend(trainer)
    IN  /\ environ' = env
        /\ IF ShouldInit(initialized)
           THEN /\ Len(pg_calls) < MaxInitCalls
                /\ pg_calls' = Append(pg_calls,
                       InitProcessGroupCall(torch_backend, global_rank, world_size,
                                            EnvironAtInit(environ, env), trainer, ce))
                \* init_process_group returns with the default group set, so
                \* that is_initialized() is true from then on
                /\ initialized' = TRUE
           ELSE UNCHANGED <<pg_calls, initialized>>
        \* self is not read: the call is recorded without its plugin
        /\ last' = [op |-> "init_ddp_connection", cluster_environment |-> ce,
                    skipped |-> ~ShouldInit(initialized)]
        /\ UNCHANGED <<ddp_kwargs, ctor_kwargs>>

(***************************************************************************)
(* on_before_forward and optimizer_state                                   *)
(***************************************************************************)
\* line 107: return args
OnBeforeForwardFirstOnly(model, args) == IF args = <<>> THEN args ELSE <<args[1]>>
OnBeforeForwardReturn(model, args) == args

on_before_forward(p, model, args) ==
    /\ last' = [op |-> "on_before_forward", model |-> model, args |-> args,
                ret |-> OnBeforeForwardReturn(model, args)]
    /\ UNCHANGED <<ddp_kwargs, ctor_kwargs, environ, initialized, pg_calls>>

\* optimizer.state_dict()
state_dict(optimizer) == optimizer.sd

\* line 110: return optimizer.state_dict()
OptimizerStateOnlyState(optimizer) == [state |-> state_dict(optimizer).state]
OptimizerStateReturn(optimizer) == state_dict(optimizer)

\* the methods line 110 calls on the optimizer
OptimizerStateMethodCalls == <<"state_dict">>

optimizer_state(p, optimizer) ==
    /\ last' = [op |-> "optimizer_state", optimizer |-> optimizer,
                calls |-> OptimizerStateMethodCalls,
                ret |-> OptimizerStateReturn(optimizer)]
    /\ UNCHANGED <<ddp_kwargs, ctor_kwargs, environ, initialized, pg_calls>>

(***************************************************************************)
(* Specifications.                                                         *)
(***************************************************************************)
\* configure_ddp alone, over all its arguments
NextConfigure ==
    \E p \in PluginIds, m \in Models, d \in DeviceIds : configure_ddp(p, m, d)

SpecConfigure == Init /\ [][NextConfigure]_vars

\* init_ddp_connection alone, over all its arguments
NextConnection ==
    \E p \in PluginIds, t \in Trainers, ce \in ClusterEnvs,
       r \in Ranks, w \in WorldSizes : init_ddp_connection(p, t, ce, r, w)

SpecConnection == Init /\ [][NextConnection]_vars

\* the four methods interleaved; the two hooks over all their arguments,
\* configure_ddp and init_ddp_connection over one model, one device list, one
\* trainer and one rank
Next ==
    \/ \E p \in PluginIds : configure_ddp(p, "model_a", <<0>>)
    \/ \E p \in PluginIds, ce \in ClusterEnvs :
          init_ddp_connection(p, [on_gpu |-> PyBool(TRUE)], ce, 0, 1)
    \/ \E p \in PluginIds, m \in Models, a \in ArgTuples : on_before_forward(p, m, a)
    \/ \E p \in PluginIds, o \in Optimizers : optimizer_state(p, o)

Spec == Init /\ [][Next]_vars
(***************************************************************************)
(* Properties.                                                             *)
(***************************************************************************)
\* os.environ restricted to EnvKeys, holding the string forms of what the
\* cluster environment returns
EnvironOf(ce) ==
    [MASTER_ADDR |-> str(ce.master_address),
     MASTER_PORT |-> str(ce.master_port),
     WORLD_SIZE |-> str(ce.world_size)]

\* C1: over any sequence of init_ddp_connection calls init_process_group is
\* invoked at most once, and a call invokes it only when is_initialized() is
\* false at that moment; it leaves is_initialized() true, so that every later
\* call skips it.
C1_InitProcessGroupAtMostOnce ==
    /\ [](Len(pg_calls) <= 1)
    /\ [][pg_calls' # pg_calls =>
            /\ ~initialized
            /\ initialized'
            /\ Len(pg_calls') = Len(pg_calls) + 1]_vars
    /\ [][initialized => pg_calls' = pg_calls]_vars

\* a call that found the process group initialized by an earlier call and
\* skipped init_process_group
C1_Witness ==
    /\ Len(pg_calls) = 1
    /\ last.op = "init_ddp_connection"
    /\ last.skipped

\* the wrapper configure_ddp returned holds the given model, the given
\* device_ids and every keyword the constructor of plugin p received, under the
\* same name and with the same value
Forwarded(call) ==
    /\ call.ret.raised = ""
    /\ call.ret.cls = "LightningDistributedDataParallel"
    /\ call.ret.module = call.model
    /\ "device_ids" \in DOMAIN call.ret.kwargs
    /\ call.ret.kwargs["device_ids"] = call.device_ids
    /\ \A k \in DOMAIN ctor_kwargs[call.plugin] :
          /\ k \in DOMAIN call.ret.kwargs
          /\ call.ret.kwargs[k] = ctor_kwargs[call.plugin][k]

C3_DefaultFindUnusedParameters ==
    last.op = "configure_ddp" =>
        /\ ("find_unused_parameters" \notin DOMAIN ctor_kwargs[last.plugin]
              /\ last.ret.raised = "")
           => /\ "find_unused_parameters" \in DOMAIN last.ret.kwargs
              /\ last.ret.kwargs["find_unused_parameters"] = TRUE
        /\ ctor_kwargs[last.plugin] = EmptyDict
           => /\ last.ret.raised = ""
              /\ last.ret.cls = "LightningDistributedDataParallel"
              /\ last.ret.module = last.model
              /\ last.ret.kwargs = [device_ids |-> last.device_ids,
                                    find_unused_parameters |-> TRUE]

\* a wrapper constructed by a plugin that was given bucket_cap_mb only
C3_Witness ==
    /\ last.op = "configure_ddp"
    /\ ctor_kwargs[last.plugin] = [bucket_cap_mb |-> 25]
    /\ last.ret.raised = ""
    /\ last.ret.kwargs = [device_ids |-> last.device_ids, bucket_cap_mb |-> 25,
                          find_unused_parameters |-> TRUE]

\* C4: whenever init_process_group is invoked, MASTER_ADDR, MASTER_PORT and
\* WORLD_SIZE already hold the string forms of what the cluster environment of
\* that same call returns.
C4_EnvironSetBeforeInit ==
    \A i \in 1..Len(pg_calls) :
        pg_calls[i].environ = EnvironOf(pg_calls[i].call.cluster_environment)

\* init_process_group invoked with the integer port 12910 and the integer world
\* size 1 in the environment as the strings "12910" and "1"
C4_Witness ==
    /\ Len(pg_calls) = 1
    /\ pg_calls[1].call.cluster_environment.master_port = PyInt(12910)
    /\ pg_calls[1].call.cluster_environment.world_size = PyInt(1)
    /\ pg_calls[1].environ =
          [MASTER_ADDR |-> "node1", MASTER_PORT |-> "12910", WORLD_SIZE |-> "1"]

\* C5: on_before_forward returns exactly the args it was given and leaves the
\* plugins' stored kwargs, the environment variables and the process-group
\* state unchanged.
C5_OnBeforeForwardPassthrough ==
    [][last'.op = "on_before_forward" =>
          /\ last'.ret = last'.args
          /\ UNCHANGED <<ddp_kwargs, environ, initialized, pg_calls>>]_vars

\* on_before_forward called with two arguments after configure_ddp has changed
\* a plugin's kwargs and init_ddp_connection has initialized the process group
C5_Witness ==
    /\ last.op = "on_before_forward"
    /\ last.args = <<"batch", "batch_idx">>
    /\ last.ret = <<"batch", "batch_idx">>
    /\ Len(pg_calls) = 1
    /\ environ["MASTER_ADDR"] = "node1"
    /\ \E p \in PluginIds : ddp_kwargs[p] # ctor_kwargs[p]

\* C6: optimizer_state returns exactly what optimizer.state_dict() returns,
\* calls state_dict once, and leaves the plugins' stored kwargs, the environment
\* variables and the process-group state unchanged.
C6_OptimizerStateIsStateDict ==
    [][last'.op = "optimizer_state" =>
          /\ last'.ret = last'.optimizer.sd
          /\ last'.calls = <<"state_dict">>
          /\ UNCHANGED <<ddp_kwargs, environ, initialized, pg_calls>>]_vars

\* optimizer_state called on the optimizer with a non-empty state, after
\* configure_ddp and init_ddp_connection have acted
C6_Witness ==
    /\ last.op = "optimizer_state"
    /\ last.optimizer.name = "adam"
    /\ last.ret = [state |-> <<"exp_avg">>, param_groups |-> <<"lr=3">>]
    /\ Len(pg_calls) = 1
    /\ \E p \in PluginIds : ddp_kwargs[p] # ctor_kwargs[p]

\* C7: the backend given to init_process_group is "nccl" if trainer.on_gpu is
\* true and "gloo" otherwise, and the rank and world_size given are the
\* global_rank and world_size arguments of the call.
C7_BackendRankWorldSize ==
    \A i \in 1..Len(pg_calls) :
        LET c == pg_calls[i]
        IN  /\ c.backend = (IF c.call.on_gpu = PyBool(TRUE) THEN "nccl" ELSE "gloo")
            /\ c.rank = c.call.global_rank
            /\ c.world_size = c.call.world_size

\* the process group initialized with gloo for on_gpu = None, with a rank and a
\* world size that differ from what the cluster environment reports
C7_Witness ==
    /\ Len(pg_calls) = 1
    /\ pg_calls[1].call.on_gpu = PyNone
    /\ pg_calls[1].backend = "gloo"
    /\ pg_calls[1].rank = 1
    /\ pg_calls[1].world_size = 2
    /\ pg_calls[1].call.cluster_environment.world_size = PyInt(1)

\* C8: after every call of init_ddp_connection, also one that skipped
\* init_process_group, the three variables hold the values of that call's
\* cluster environment.
C8_EnvironFollowsLastCall ==
    last.op = "init_ddp_connection" => environ = EnvironOf(last.cluster_environment)

\* a call that skipped init_process_group and overwrote the variables the
\* initializing call had written
C8_Witness ==
    /\ last.op = "init_ddp_connection"
    /\ last.skipped
    /\ Len(pg_calls) = 1
    /\ pg_calls[1].environ # environ
    /\ environ = [MASTER_ADDR |-> "node1", MASTER_PORT |-> "29500", WORLD_SIZE |-> "None"]
====
